---- MODULE Spec2Model ----
(***************************************************************************)
(* Model of src/main.rs: a container launcher that pulls an image from a   *)
(* registry, unpacks its layers into a temporary directory, chroots into   *)
(* it, unshares the PID namespace and runs a command.                      *)
(*                                                                         *)
(* main() is a straight-line procedure; pc is its position.  Every call    *)
(* that can fail (the `?` operator) is one step whose outcome is drawn     *)
(* from the outcomes the environment (OS, registry, child) can produce.    *)
(* Strings that the program takes apart (the image reference) are          *)
(* sequences of characters.                                                *)
(***************************************************************************)
EXTENDS Integers, Sequences, FiniteSets, TLC

\* ---------------------------------------------------------------- bounds
MaxLen == 3
MaxIndex == 2
MaxLayers == 2

\* ------------------------------------------------------- input universes
Alphabet == {"a", ":"}
Archs == {"arm64", "ARM64", "amd64"}
Digests == {"d1", "d2"}
Paths == {"dev/null", "bin/sh"}
Contents == {"x", "y"}
Absent == "absent"
Empty == "empty"
Garbage == "garbage"
NoStatus == "none"
ExitCodes == {0, 7}
HttpStatuses == {"200", "404"}

SeqsUpTo(S, n) == UNION {[1..k -> S] : k \in 0..n}

ImageNames == SeqsUpTo(Alphabet, MaxLen)

\* One entry of the manifest list: DistributionManifest / Platform.
DistributionManifest == [digest : Digests, architecture : Archs]

\* A tar entry (regular file) and the archives a blob can decode to: the
\* empty archive, every archive of one entry, and one archive that holds the
\* same path twice.  `ok` FALSE is a stream that turns out corrupt (bad gzip
\* or malformed tar) after the listed entries were read.
TarEntry == [path : Paths, content : Contents]
Archives ==
    {<<>>} \cup {<<e>> : e \in TarEntry}
      \cup {<<[path |-> "bin/sh", content |-> "x"],
               [path |-> "bin/sh", content |-> "y"]>>}
Blobs == [entries : Archives, ok : BOOLEAN]

latest == <<"l", "a", "t", "e", "s", "t">>

\* str::split(':'): the pieces between separators ("" splits to one empty piece).
RECURSIVE split(_)
split(s) ==
    IF s = <<>> THEN << <<>> >>
    ELSE LET rest == split(Tail(s)) IN
         IF Head(s) = ":"
         THEN << <<>> >> \o rest
         ELSE << <<Head(s)>> \o rest[1] >> \o Tail(rest)

\* split.next().unwrap()
split_first(s) == split(s)[1]

\* Variant: the tag is never taken from the reference.
split_second_ignored(s) == latest

\* split.next().unwrap_or("latest") on the second call
split_second(s) == IF Len(split(s)) >= 2 THEN split(s)[2] ELSE latest

\* Variant: falls back to the first entry when nothing matches.
find_or_first(ms, platform_architecture) ==
    LET hits == {i \in DOMAIN ms : ms[i].architecture = platform_architecture}
    IN IF ms = <<>> THEN <<>>
       ELSE IF hits = {} THEN <<ms[1]>>
       ELSE <<ms[CHOOSE i \in hits : \A j \in hits : i <= j]>>

\* Variant: the last matching entry (rfind) instead of the first.
find_last(ms, platform_architecture) ==
    LET hits == {i \in DOMAIN ms : ms[i].architecture = platform_architecture}
    IN IF hits = {} THEN <<>>
       ELSE <<ms[CHOOSE i \in hits : \A j \in hits : i >= j]>>

\* manifests.iter().find(|m| m.platform.architecture == platform_architecture):
\* <<m>> for Some(m), <<>> for None.
RECURSIVE find(_, _)
find(ms, platform_architecture) ==
    IF ms = <<>> THEN <<>>
    ELSE IF Head(ms).architecture = platform_architecture
         THEN <<Head(ms)>>
         ELSE find(Tail(ms), platform_architecture)

\* Variant: unpack with overwrite disabled, an existing file is kept.
RECURSIVE unpack_keep_existing(_, _)
unpack_keep_existing(fs, entries) ==
    IF entries = <<>> THEN fs
    ELSE unpack_keep_existing(
             IF fs[Head(entries).path] = Absent
             THEN [fs EXCEPT ![Head(entries).path] = Head(entries).content]
             ELSE fs,
             Tail(entries))

\* tar::Archive::unpack: entries are written in archive order, an existing
\* file at the same path is replaced.
RECURSIVE unpack(_, _)
unpack(fs, entries) ==
    IF entries = <<>> THEN fs
    ELSE unpack([fs EXCEPT ![Head(entries).path] = Head(entries).content],
                Tail(entries))

\* Variant: the child's code is dropped, the default is always used.
code_dropped(st, d) == d

\* ExitStatus::success() and ExitStatus::code().unwrap_or(d)
success(st) == ~st.signaled /\ st.code = 0

code_unwrap_or(st, d) == IF st.signaled THEN d ELSE st.code

\* The architecture main() asks for.
platform_architecture_arg == "arm64"

NoChild == [started |-> FALSE, signaled |-> FALSE, code |-> 0]
ChildStatuses == [started : {TRUE}, signaled : {FALSE}, code : ExitCodes]
                   \cup {[started |-> TRUE, signaled |-> TRUE, code |-> 0]}

VARIABLES
    pc,            \* position in main()
    image_name,    \* args[2]
    image,         \* split.next().unwrap()
    tag,           \* split.next().unwrap_or("latest")
    temp_dir,      \* what exists of the workspace: "none", "dir", "dev", "ready"
    files,         \* regular files under the workspace: path -> content
    token,
    manifest,      \* get_image_digest's parsed manifest list: <<>> or <<list>>
    image_digest,
    image_layers,  \* Vec<Layer>, as the sequence of digests
    li,            \* number of layers download_layers has finished
    layer_data,    \* bytes of the blob being unpacked
    unpacked,      \* archives unpacked so far, in order
    requests,      \* registry requests sent, in order
    resp_status,   \* HTTP status of the response in hand
    calls,         \* isolation / process calls made, in order
    root,          \* "host" or "workspace"
    pidns,         \* TRUE once the PID namespace is unshared
    child,         \* child's wait status
    exit_code      \* launcher's exit status, -1 while running

vars == <<pc, image_name, image, tag, temp_dir, files, token, manifest,
          image_digest, image_layers, li, layer_data, unpacked, requests,
          resp_status, calls, root, pidns, child, exit_code>>

NoBlob == [entries |-> <<>>, ok |-> FALSE]

Init ==
    /\ pc = "create_temp_dir"
    /\ image_name \in ImageNames
    /\ image = <<>>
    /\ tag = <<>>
    /\ temp_dir = "none"
    /\ files = [p \in Paths |-> Absent]
    /\ token = ""
    /\ manifest = <<>>
    /\ image_digest = ""
    /\ image_layers = <<>>
    /\ li = 0
    /\ layer_data = NoBlob
    /\ unpacked = <<>>
    /\ requests = <<>>
    /\ resp_status = NoStatus
    /\ calls = <<>>
    /\ root = "host"
    /\ pidns = FALSE
    /\ child = NoChild
    /\ exit_code = -1

\* `?` on an Err in main: anyhow prints the error and the process exits 1.
Abort ==
    /\ pc' = "done"
    /\ exit_code' = 1

----
\* Variant: the result of File::create(dev/null) is not checked.
create_temp_dir_unchecked ==
    /\ pc = "create_temp_dir"
    /\ \E got \in {"none", "dir", "dev", "ready"} :
         /\ temp_dir' = got
         /\ IF got = "ready"
            THEN /\ files' = [files EXCEPT !["dev/null"] = Empty]
                 /\ pc' = "split"
                 /\ UNCHANGED exit_code
            ELSE IF got = "dev"
            THEN /\ UNCHANGED files
                 /\ pc' = "split"
                 /\ UNCHANGED exit_code
            ELSE /\ UNCHANGED files
                 /\ Abort
    /\ UNCHANGED <<image_name, image, tag, token, manifest, image_digest,
                   image_layers, li, layer_data, unpacked, requests,
                   resp_status, calls, root, pidns, child>>

\* create_temp_dir: tempdir(), create_dir_all(dev), File::create(dev/null).
create_temp_dir ==
    /\ pc = "create_temp_dir"
    /\ \E got \in {"none", "dir", "dev", "ready"} :
         /\ temp_dir' = got
         /\ IF got = "ready"
            THEN /\ files' = [files EXCEPT !["dev/null"] = Empty]
                 /\ pc' = "split"
                 /\ UNCHANGED exit_code
            ELSE /\ UNCHANGED files
                 /\ Abort
    /\ UNCHANGED <<image_name, image, tag, token, manifest, image_digest,
                   image_layers, li, layer_data, unpacked, requests,
                   resp_status, calls, root, pidns, child>>

\* main, lines 162-164: split the image reference.
split_image_name ==
    /\ pc = "split"
    /\ image' = split_first(image_name)
    /\ tag' = split_second(image_name)
    /\ pc' = "get_auth_token"
    /\ UNCHANGED <<image_name, temp_dir, files, token, manifest, image_digest,
                   image_layers, li, layer_data, unpacked, requests,
                   resp_status, calls, root, pidns, child, exit_code>>

\* A registry call: reqwest's send() either fails (transport error) or yields
\* a response with some status and some body; the code reads only the body.
TokenRequest == [kind |-> "token", image |-> image]
ListRequest == [kind |-> "manifest_list", image |-> image, tag |-> tag]
ManifestRequest == [kind |-> "manifest", image |-> image, digest |-> image_digest]
BlobRequest == [kind |-> "blob", image |-> image, digest |-> image_layers[li + 1]]

\* get_auth_token: GET the token endpoint, parse AuthResp.
get_auth_token ==
    /\ pc = "get_auth_token"
    /\ requests' = Append(requests, TokenRequest)
    /\ \/ /\ resp_status' = NoStatus          \* send() failed
          /\ Abort
          /\ UNCHANGED token
       \/ \E st \in HttpStatuses, body \in {Garbage, "tok"} :
            /\ resp_status' = st
            /\ IF body = Garbage
               THEN Abort /\ UNCHANGED token
               ELSE /\ token' = body
                    /\ pc' = "get_image_digest"
                    /\ UNCHANGED exit_code
    /\ UNCHANGED <<image_name, image, tag, temp_dir, files, manifest,
                   image_digest, image_layers, li, layer_data, unpacked,
                   calls, root, pidns, child>>

\* get_image_digest: GET the manifest list, parse it, find the entry.
get_image_digest ==
    /\ pc = "get_image_digest"
    /\ requests' = Append(requests, ListRequest)
    /\ \/ /\ resp_status' = NoStatus
          /\ Abort
          /\ UNCHANGED <<manifest, image_digest>>
       \/ \E st \in HttpStatuses :
            /\ resp_status' = st
            /\ \/ Abort /\ UNCHANGED <<manifest, image_digest>>   \* body does not parse
               \/ \E ms \in SeqsUpTo(DistributionManifest, MaxIndex) :
                    /\ manifest' = <<ms>>
                    /\ IF find(ms, platform_architecture_arg) = <<>>
                       THEN Abort /\ UNCHANGED image_digest
                       ELSE /\ image_digest' = find(ms, platform_architecture_arg)[1].digest
                            /\ pc' = "get_image_layers"
                            /\ UNCHANGED exit_code
    /\ UNCHANGED <<image_name, image, tag, temp_dir, files, token,
                   image_layers, li, layer_data, unpacked, calls, root,
                   pidns, child>>

\* get_image_layers: GET the image manifest by digest, parse its layers.
\* On return, main() enters download_layers and its for loop.
get_image_layers ==
    /\ pc = "get_image_layers"
    /\ requests' = Append(requests, ManifestRequest)
    /\ manifest' = <<>>
    /\ \/ /\ resp_status' = NoStatus
          /\ Abort
          /\ UNCHANGED image_layers
       \/ \E st \in HttpStatuses :
            /\ resp_status' = st
            /\ \/ Abort /\ UNCHANGED image_layers
               \/ \E ls \in SeqsUpTo(Digests, MaxLayers) :
                    /\ image_layers' = ls
                    /\ pc' = IF ls = <<>> THEN "chroot" ELSE "fetch"
                    /\ UNCHANGED exit_code
    /\ UNCHANGED <<image_name, image, tag, temp_dir, files, token,
                   image_digest, li, layer_data, unpacked, calls, root,
                   pidns, child>>

\* download_layers, loop body part 1: GET the blob of the next layer.
download_layers_fetch ==
    /\ pc = "fetch"
    /\ li < Len(image_layers)
    /\ requests' = Append(requests, BlobRequest)
    /\ \/ /\ resp_status' = NoStatus
          /\ Abort
          /\ UNCHANGED layer_data
       \/ \E st \in HttpStatuses, body \in Blobs :
            /\ resp_status' = st
            /\ layer_data' = body
            /\ pc' = "unpack"
            /\ UNCHANGED exit_code
    /\ UNCHANGED <<image_name, image, tag, temp_dir, files, token, manifest,
                   image_digest, image_layers, li, unpacked, calls, root,
                   pidns, child>>

\* Variant: the loop is left after the first layer.
download_layers_unpack_break ==
    /\ pc = "unpack"
    /\ files' = unpack(files, layer_data.entries)
    /\ resp_status' = NoStatus
    /\ IF layer_data.ok
       THEN /\ unpacked' = Append(unpacked, layer_data.entries)
            /\ li' = li + 1
            /\ layer_data' = NoBlob
            /\ pc' = "chroot"
            /\ UNCHANGED exit_code
       ELSE /\ Abort
            /\ UNCHANGED <<unpacked, li, layer_data>>
    /\ UNCHANGED <<image_name, image, tag, temp_dir, token, manifest,
                   image_digest, image_layers, requests, calls, root, pidns,
                   child>>

\* Variant: an unpack error is swallowed and the loop goes on.
download_layers_unpack_continue ==
    /\ pc = "unpack"
    /\ files' = unpack(files, layer_data.entries)
    /\ resp_status' = NoStatus
    /\ unpacked' = IF layer_data.ok THEN Append(unpacked, layer_data.entries)
                   ELSE unpacked
    /\ li' = li + 1
    /\ layer_data' = IF layer_data.ok THEN NoBlob ELSE layer_data
    /\ pc' = IF li + 1 < Len(image_layers) THEN "fetch" ELSE "chroot"
    /\ UNCHANGED exit_code
    /\ UNCHANGED <<image_name, image, tag, temp_dir, token, manifest,
                   image_digest, image_layers, requests, calls, root, pidns,
                   child>>

\* download_layers, loop body part 2: gunzip and unpack onto the workspace.
download_layers_unpack ==
    /\ pc = "unpack"
    /\ files' = unpack(files, layer_data.entries)
    /\ resp_status' = NoStatus
    /\ IF layer_data.ok
       THEN /\ unpacked' = Append(unpacked, layer_data.entries)
            /\ li' = li + 1
            /\ layer_data' = NoBlob
            /\ pc' = IF li + 1 < Len(image_layers) THEN "fetch" ELSE "chroot"
            /\ UNCHANGED exit_code
       ELSE /\ Abort
            /\ UNCHANGED <<unpacked, li, layer_data>>
    /\ UNCHANGED <<image_name, image, tag, temp_dir, token, manifest,
                   image_digest, image_layers, requests, calls, root, pidns,
                   child>>

\* chroot_to_temp_dir: chroot(temp_dir_path)?, set_current_dir("/")?.
chroot_to_temp_dir ==
    /\ pc = "chroot"
    /\ resp_status' = NoStatus
    /\ \/ /\ calls' = Append(calls, "chroot")          \* chroot rejected
          /\ UNCHANGED root
          /\ Abort
       \/ /\ calls' = calls \o <<"chroot", "chdir">>   \* chdir rejected
          /\ root' = "workspace"
          /\ Abort
       \/ /\ calls' = calls \o <<"chroot", "chdir">>
          /\ root' = "workspace"
          /\ pc' = "unshare"
          /\ UNCHANGED exit_code
    /\ UNCHANGED <<image_name, image, tag, temp_dir, files, token, manifest,
                   image_digest, image_layers, li, layer_data, unpacked,
                   requests, pidns, child>>

\* main, line 184: unsafe { libc::unshare(CLONE_NEWPID) }; the return value
\* is discarded.
unshare ==
    /\ pc = "unshare"
    /\ calls' = Append(calls, "unshare")
    /\ \E ret \in {0, -1} : pidns' = (ret = 0)
    /\ pc' = "command"
    /\ UNCHANGED <<image_name, image, tag, temp_dir, files, token, manifest,
                   image_digest, image_layers, li, layer_data, unpacked,
                   requests, resp_status, root, child, exit_code>>

\* main, lines 187-206: Command::output(), then exit with the child's status.
run_command ==
    /\ pc = "command"
    /\ calls' = Append(calls, "command")
    /\ pc' = "done"
    /\ \/ /\ UNCHANGED child                  \* the command could not be started
          /\ exit_code' = 1
       \/ \E st \in ChildStatuses :
            /\ child' = st
            /\ exit_code' = IF success(st) THEN 0 ELSE code_unwrap_or(st, 1)
    /\ UNCHANGED <<image_name, image, tag, temp_dir, files, token, manifest,
                   image_digest, image_layers, li, layer_data, unpacked,
                   requests, resp_status, root, pidns>>

Next ==
    \/ create_temp_dir
    \/ split_image_name
    \/ get_auth_token
    \/ get_image_digest
    \/ get_image_layers
    \/ download_layers_fetch
    \/ download_layers_unpack
    \/ chroot_to_temp_dir
    \/ unshare
    \/ run_command

Spec == Init /\ [][Next]_vars

----
\* Helpers for the properties.

BlobRequests == SelectSeq(requests, LAMBDA r : r.kind = "blob")
CountKind(k) == Cardinality({i \in DOMAIN requests : requests[i].kind = k})
Before(a, b) ==
    \A i \in DOMAIN calls :
        calls[i] = b => \E j \in 1..(i - 1) : calls[j] = a
Aborted == pc = "done" /\ exit_code = 1
SepPositions(s) == {i \in DOMAIN s : s[i] = ":"}
Matches(ms, a) == {i \in DOMAIN ms : ms[i].architecture = a}
Least(S) == CHOOSE i \in S : \A j \in S : i <= j
Greatest(S) == CHOOSE i \in S : \A j \in S : i >= j
\* Layers (positions in ls) that hold an entry for path p, and the entries of
\* one archive that do.
Writers(ls, p) == {k \in DOMAIN ls : \E j \in DOMAIN ls[k] : ls[k][j].path = p}
EntriesFor(ar, p) == {j \in DOMAIN ar : ar[j].path = p}
LastWritten(ls, p) ==
    LET k == Greatest(Writers(ls, p))
    IN ls[k][Greatest(EntriesFor(ls[k], p))].content
WorkspaceSeed(p) == IF p = "dev/null" THEN Empty ELSE Absent
ExtractionComplete ==
    /\ pc \in {"chroot", "unshare", "command", "done"}
    /\ temp_dir = "ready"
    /\ CountKind("manifest") = 1
    /\ Len(unpacked) = Len(image_layers)
    /\ pc = "done" => calls # <<>>

\* C1: the user command is started only when both the root change and the
\* PID-namespace isolation have succeeded.
C1_CommandOnlyWhenIsolated ==
    child.started => (root = "workspace" /\ pidns)

\* C2: chroot is called before chdir, chdir before unshare, unshare before the
\* command is started, and none of them is called until every layer of the
\* manifest has been fetched and unpacked.
C2_IsolationOrder ==
    /\ Before("chroot", "chdir")
    /\ Before("chdir", "unshare")
    /\ Before("unshare", "command")
    /\ \A i, j \in DOMAIN calls : (i # j) => (calls[i] # calls[j])
    /\ calls # <<>> =>
          /\ li = Len(image_layers)
          /\ Len(unpacked) = Len(image_layers)
          /\ Len(BlobRequests) = Len(image_layers)
          /\ pc \notin {"fetch", "unpack"}

C2_Witness ==
    /\ calls = <<"chroot", "chdir", "unshare", "command">>
    /\ child.started
    /\ Len(image_layers) = MaxLayers
    /\ Len(unpacked) = MaxLayers

\* C3: when the parsed manifest list has no entry for the requested
\* architecture the run aborts at once: no image-manifest request, no blob
\* request, nothing unpacked, no isolation call, no command.
C3_NoMatchAborts ==
    (manifest # <<>> /\ Matches(manifest[1], platform_architecture_arg) = {}) =>
       /\ Aborted
       /\ image_digest = ""
       /\ CountKind("manifest") = 0
       /\ CountKind("blob") = 0
       /\ Len(requests) = 2
       /\ unpacked = <<>>
       /\ \A p \in Paths : files[p] = WorkspaceSeed(p)
       /\ calls = <<>>
       /\ root = "host" /\ ~pidns
       /\ ~child.started

C3_Witness ==
    /\ manifest # <<>>
    /\ Len(manifest[1]) = MaxIndex
    /\ Matches(manifest[1], platform_architecture_arg) = {}
    /\ Matches(manifest[1], "ARM64") # {}
    /\ pc = "done"

\* C4: resolution yields the digest of the first entry, in list order, whose
\* architecture equals the requested one exactly; this holds of find for every
\* architecture string, and the digest found is the one the image-manifest
\* request carries.
C4_FirstMatch ==
    /\ manifest # <<>> =>
          /\ \A a \in Archs :
                LET hits == Matches(manifest[1], a)
                IN IF hits = {}
                   THEN find(manifest[1], a) = <<>>
                   ELSE find(manifest[1], a) = <<manifest[1][Least(hits)]>>
          /\ Matches(manifest[1], platform_architecture_arg) # {} =>
                /\ pc = "get_image_layers"
                /\ image_digest =
                     manifest[1][Least(Matches(manifest[1],
                                               platform_architecture_arg))].digest
    /\ \A i \in DOMAIN requests :
          requests[i].kind = "manifest" =>
             /\ requests[i].digest = image_digest
             /\ image_digest \in Digests

C4_Witness ==
    /\ manifest # <<>>
    /\ Cardinality(Matches(manifest[1], platform_architecture_arg)) >= 2
    /\ manifest[1][1].digest # manifest[1][2].digest
    /\ pc = "get_image_layers"

C4_WitnessCase ==
    /\ manifest # <<>>
    /\ Len(manifest[1]) = 2
    /\ manifest[1][1].architecture = "ARM64"
    /\ manifest[1][2].architecture = "arm64"
    /\ image_digest = manifest[1][2].digest
    /\ image_digest # manifest[1][1].digest

\* C5: once all layers are unpacked, every path written by some layer holds
\* the content of the last layer, in manifest order, that contains it (and of
\* that layer's last entry for the path); a path no layer wrote is as the
\* workspace was built.
C5_LastWriterWins ==
    ExtractionComplete =>
       \A p \in Paths :
          IF Writers(unpacked, p) # {}
          THEN files[p] = LastWritten(unpacked, p)
          ELSE files[p] = WorkspaceSeed(p)

C5_Witness ==
    /\ ExtractionComplete
    /\ Len(unpacked) = 2
    /\ \E p \in Paths :
          /\ EntriesFor(unpacked[1], p) # {}
          /\ EntriesFor(unpacked[2], p) # {}
          /\ LastWritten(<<unpacked[1]>>, p) # LastWritten(<<unpacked[2]>>, p)
          /\ files[p] = LastWritten(<<unpacked[2]>>, p)

\* C6: when the child was started and has finished, the launcher exits 0 if
\* the child exited 0, with the child's code if it exited non-zero, and 1 if
\* the child was killed by a signal.
C6_ExitStatus ==
    (pc = "done" /\ child.started) =>
       /\ (~child.signaled /\ child.code = 0) => exit_code = 0
       /\ (~child.signaled /\ child.code # 0) => exit_code = child.code
       /\ child.signaled => exit_code = 1

C6_Witness ==
    /\ pc = "done"
    /\ child.started
    /\ ~child.signaled
    /\ child.code = 7
    /\ exit_code = 7

\* C7: every registry call that ends in a transport error or in a non-2xx
\* response aborts the run on the spot with a non-zero exit.
C7_FailedCallAborts ==
    [][(requests' # requests /\ resp_status' # "200") => Aborted']_vars

\* C8: after the split, a reference with exactly one ':' gives the substrings
\* before and after it as name and tag, a reference without ':' gives itself
\* and "latest"; the token and manifest-list requests carry that name and tag.
Parsed == temp_dir = "ready" /\ pc \notin {"create_temp_dir", "split"}

C8_ImageReference ==
    Parsed =>
       /\ Cardinality(SepPositions(image_name)) = 1 =>
             LET k == Least(SepPositions(image_name))
             IN /\ image = SubSeq(image_name, 1, k - 1)
                /\ tag = SubSeq(image_name, k + 1, Len(image_name))
       /\ SepPositions(image_name) = {} =>
             /\ image = image_name
             /\ tag = latest
       /\ \A i \in DOMAIN requests :
             /\ requests[i].image = image
             /\ requests[i].kind = "manifest_list" => requests[i].tag = tag
       /\ pc # "get_auth_token" => CountKind("token") = 1
       /\ pc \notin {"get_auth_token", "get_image_digest"} =>
             (CountKind("manifest_list") = 1 \/ (Aborted /\ Len(requests) = 1))

C8_Witness ==
    /\ image_name = <<"a", ":", "a">>
    /\ image = <<"a">>
    /\ tag = <<"a">>
    /\ CountKind("manifest_list") = 1

C8_WitnessDefault ==
    /\ image_name = <<"a", "a">>
    /\ tag = latest
    /\ CountKind("manifest_list") = 1

\* C9: no registry request is sent before the workspace is complete, dev/null
\* is a file in the workspace whenever a layer is fetched or unpacked, and a
\* run whose workspace could not be built aborts with no request sent.
C9_WorkspaceFirst ==
    /\ requests # <<>> => (temp_dir = "ready" /\ files["dev/null"] # Absent)
    /\ pc \in {"fetch", "unpack"} => files["dev/null"] # Absent
    /\ (pc = "unpack" /\ li = 0) => files["dev/null"] = Empty
    /\ (pc # "create_temp_dir" /\ temp_dir # "ready") =>
          (Aborted /\ requests = <<>> /\ unpacked = <<>>)

C9_Witness ==
    /\ pc = "unpack"
    /\ li = 0
    /\ files["dev/null"] = Empty
    /\ layer_data.entries # <<>>

\* C10: blobs are requested in manifest order, one per layer; the blob of
\* layer i+1 is requested only when layer i is unpacked completely; when layer
\* k fails the layers before it stay applied and no later blob is requested.
C10_SequentialLayers ==
    LET B == BlobRequests
    IN /\ Len(B) <= Len(image_layers)
       /\ \A i \in DOMAIN B : B[i].digest = image_layers[i]
       /\ li = Len(unpacked)
       /\ Len(B) \in {Len(unpacked), Len(unpacked) + 1}
       /\ pc = "fetch" => (Len(B) = Len(unpacked) /\ layer_data = NoBlob)
       /\ pc = "unpack" => Len(B) = Len(unpacked) + 1
       /\ ExtractionComplete => Len(B) = Len(image_layers)
       /\ (pc = "done" /\ Len(unpacked) < Len(image_layers)) =>
             /\ Aborted
             /\ Len(B) = Len(unpacked) + 1
             /\ calls = <<>>
             /\ \A p \in Paths :
                   IF EntriesFor(layer_data.entries, p) # {}
                   THEN files[p] = LastWritten(<<layer_data.entries>>, p)
                   ELSE IF Writers(unpacked, p) # {}
                   THEN files[p] = LastWritten(unpacked, p)
                   ELSE files[p] = WorkspaceSeed(p)

C10_Witness ==
    /\ pc = "done"
    /\ Len(image_layers) = 2
    /\ Len(unpacked) = 1
    /\ Len(BlobRequests) = 2
    /\ unpacked[1] # <<>>
    /\ \E p \in Paths :
          /\ EntriesFor(unpacked[1], p) # {}
          /\ EntriesFor(layer_data.entries, p) = {}
          /\ files[p] = LastWritten(unpacked, p)
====
